---- MODULE Spec2Model ----
(***************************************************************************)
(* A model of the JWT authentication API of src/main.py and of the request *)
(* schemas of src/schemas.py.                                              *)
(*                                                                         *)
(* Every request is handled by a worker (Procs).  The register handler is  *)
(* modelled statement by statement, because it reads the user table twice  *)
(* before it writes to it and other requests run in between; login and     *)
(* /users/me read the table once and are one step each.                    *)
(*                                                                         *)
(* The modules auth and database are imported by main.py but are not among *)
(* the source files; their parts (password hashing, the token codec, the   *)
(* clock, the users table and its uniqueness constraint) are modelled from *)
(* the specification, sections 3 to 6.                                     *)
(***************************************************************************)
EXTENDS Integers, Sequences, FiniteSets, TLC

VARIABLES
    users,    \* the users table: a sequence of rows, in insertion order
    now,      \* the clock the token codec reads
    tokens,   \* the token the client holds: the one the last login returned
    passwords,\* the passwords clients submit
    pc,       \* per worker: the position of its request in the handler
    req,      \* per worker: the request it handles
    loc,      \* per worker: the handler's local variables
    resp      \* per worker: the response of its request

vars == <<users, now, tokens, passwords, pc, req, loc, resp>>

----------------------------------------------------------------------------
(* Bounds *)

\* Token lifetime, in clock ticks (imported from auth at src/main.py:10).
ACCESS_TOKEN_EXPIRE_MINUTES == 1
\* The clock stops when the tokens issued at time 0 have expired.
MaxTime == ACCESS_TOKEN_EXPIRE_MINUTES
\* Number of distinct salts the hasher draws from.
MaxSalt == 1
\* Longest password of the exhaustive schema check.
MaxPwLen == 8

Procs == {"w1", "w2"}

----------------------------------------------------------------------------
(* Characters and strings.  A string is a sequence of characters. *)

Letters == {"a", "b", "d", "P", "r", "s", "u", "w"}
Digits  == {"0", "1"}

isdigit(c) == c \in Digits
isalpha(c) == c \in Letters
isalnum(c) == isalpha(c) \/ isdigit(c)

\* v.replace(old, '')
replace(v, old) == SelectSeq(v, LAMBDA c : c # old)

\* any(char.isdigit() for char in v), scanning from the left
RECURSIVE any_isdigit(_)
any_isdigit(v) ==
    IF v = <<>> THEN FALSE
    ELSE IF isdigit(Head(v)) THEN TRUE
    ELSE any_isdigit(Tail(v))

\* any(char.isalpha() for char in v), scanning from the left
RECURSIVE any_isalpha(_)
any_isalpha(v) ==
    IF v = <<>> THEN FALSE
    ELSE IF isalpha(Head(v)) THEN TRUE
    ELSE any_isalpha(Tail(v))

\* str.isalnum(): every character alphanumeric and at least one character
RECURSIVE all_alnum(_)
all_alnum(v) ==
    IF v = <<>> THEN TRUE
    ELSE IF ~isalnum(Head(v)) THEN FALSE
    ELSE all_alnum(Tail(v))

str_isalnum(v) == v # <<>> /\ all_alnum(v)

----------------------------------------------------------------------------
(* src/schemas.py: UserCreate *)

\* What a validator raises; Valid when it returns v.
Valid == "ok"

\* password_strength without its digit test
password_strength_no_digit_test(v) ==
    IF Len(v) < 8 THEN "Password must be at least 8 characters long"
    ELSE IF ~any_isalpha(v) THEN "Password must contain at least one letter"
    ELSE Valid

password_strength(v) ==
    IF Len(v) < 8 THEN "Password must be at least 8 characters long"
    ELSE IF ~any_isdigit(v) THEN "Password must contain at least one digit"
    ELSE IF ~any_isalpha(v) THEN "Password must contain at least one letter"
    ELSE Valid

username_alphanumeric(v) ==
    IF ~str_isalnum(replace(replace(v, "_"), "-"))
    THEN "Username must be alphanumeric (underscores and hyphens allowed)"
    ELSE Valid

\* Field(..., min_length=3, max_length=50) and Field(..., min_length=8)
username_field(v) == Len(v) >= 3 /\ Len(v) <= 50
password_field(v) == Len(v) >= 8

\* The request body parses as a UserCreate
UserCreate(u, p) ==
    /\ username_field(u)
    /\ username_alphanumeric(u) = Valid
    /\ password_field(p)
    /\ password_strength(p) = Valid

----------------------------------------------------------------------------
(* Inputs of the requests *)

Emails == {"a@x.com", "b@x.com"}

User1    == <<"u", "s", "r", "1">>
User2    == <<"u", "s", "r", "_", "b">>
Usernames == {User1, User2}

Passw0rd == <<"P", "a", "s", "s", "w", "0", "r", "d">>
\* No digit: the schema rejects it, and it is the wrong password at login
Password == <<"P", "a", "s", "s", "w", "u", "r", "d">>
Passwords == {Passw0rd, Password}

\* Every string over a letter, a digit and a symbol, up to MaxPwLen long
PwAlphabet == {"a", "1", "#"}
PwStrings == UNION {[1..n -> PwAlphabet] : n \in 0..MaxPwLen}

----------------------------------------------------------------------------
(* Optional values: None is the empty sequence, a value v is <<v>>. *)

None == <<>>
Some(v) == <<v>>

----------------------------------------------------------------------------
(* auth: the password hasher (specification 4.1) *)

Salts == 1..MaxSalt

\* A salted one-way hash: the salt, and a digest only the same secret and
\* salt reproduce.
get_password_hash(secret, salt) == [salt |-> salt, digest |-> <<salt, secret>>]

verify_password(secret, hash) == hash.digest = <<hash.salt, secret>>

----------------------------------------------------------------------------
(* auth: the token codec (specification 4.2) *)

SECRET_KEY == "server-key"

Sign(key, payload) == [key |-> key, payload |-> payload]

\* encode: expiry = issued-at + ttl, payload signed with the server key
create_access_token(data, expires_delta, t) ==
    LET payload == [sub |-> data.sub, username |-> data.username,
                    exp |-> t + expires_delta]
    IN  [fmt |-> "jwt", payload |-> payload, sig |-> Sign(SECRET_KEY, payload)]

\* decode, then the subject; None ("") on any failure
NoEmail == ""

verify_token(token, t) ==
    IF token.fmt # "jwt" THEN NoEmail
    ELSE IF token.sig # Sign(SECRET_KEY, token.payload) THEN NoEmail
    ELSE IF t >= token.payload.exp THEN NoEmail
    ELSE token.payload.sub

\* What a client can present: a token it was issued, such a token with its
\* payload altered or signed with another key, or a string that is no token.
OtherEmail(e) == CHOOSE x \in Emails : x # e

Garbage ==
    LET payload == [sub |-> NoEmail, username |-> <<>>, exp |-> 0]
    IN  [fmt |-> "garbage", payload |-> payload, sig |-> Sign("", payload)]

Tampered(tok) ==
    { [tok EXCEPT !.payload.exp = @ + 1],
      [tok EXCEPT !.payload.sub = OtherEmail(@)],
      [fmt |-> "jwt", payload |-> tok.payload, sig |-> Sign("guess", tok.payload)] }

Presentable == tokens \cup UNION {Tampered(tok) : tok \in tokens} \cup {Garbage}

----------------------------------------------------------------------------
(* database: the users table (specification 6, UserStore) *)

\* db.query(User).filter(User.email == e).first()
first_by_email(table, e) ==
    LET q == SelectSeq(table, LAMBDA row : row.email = e)
    IN  IF q = <<>> THEN None ELSE Some(q[1])

\* db.query(User).filter(User.username == u).first()
first_by_username(table, u) ==
    LET q == SelectSeq(table, LAMBDA row : row.username = u)
    IN  IF q = <<>> THEN None ELSE Some(q[1])

\* A table without the constraint
IntegrityError_never(table, row) == FALSE

\* The table's uniqueness constraint on email and on username: the insert
\* of a row that repeats either is rejected (insertIfAbsent).
IntegrityError(table, row) ==
    \E i \in 1..Len(table) :
        table[i].email = row.email \/ table[i].username = row.username

\* delete(id)
delete_by_email(table, e) == SelectSeq(table, LAMBDA row : row.email # e)

----------------------------------------------------------------------------
(* Requests, locals and responses *)

NoReq == [kind |-> "none", email |-> NoEmail, username |-> <<>>,
          password |-> <<>>, token |-> None]

NoLoc == [existing_email |-> None, existing_username |-> None,
          hashed_password |-> None, steps |-> <<>>]

Response(status, detail) ==
    [status |-> status, detail |-> detail, token |-> None, user |-> None]

NoResp == Response(0, "")

\* The handler returns or raises: its locals are gone, the steps it took
\* stay on record.
Return(l, step) == [NoLoc EXCEPT !.steps = Append(l.steps, step)]

\* A worker takes a new request when it is idle or has answered the last
Free(w) == pc[w] \in {"idle", "done"}

Init ==
    /\ users = <<>>
    /\ now = 0
    /\ tokens = {}
    /\ passwords = Passwords
    /\ pc = [w \in Procs |-> "idle"]
    /\ req = [w \in Procs |-> NoReq]
    /\ loc = [w \in Procs |-> NoLoc]
    /\ resp = [w \in Procs |-> NoResp]

----------------------------------------------------------------------------
(* POST /register *)

\* The request body is parsed as a UserCreate before the handler runs; a
\* body that does not validate is answered 422 and the handler never runs.
RegisterReceive(w) ==
    /\ Free(w)
    /\ \E e \in Emails, u \in Usernames, p \in passwords :
        /\ req' = [req EXCEPT ![w] = [kind |-> "register", email |-> e,
                                      username |-> u, password |-> p,
                                      token |-> None]]
        /\ loc' = [loc EXCEPT ![w] = NoLoc]
        /\ IF UserCreate(u, p)
           THEN /\ pc' = [pc EXCEPT ![w] = "check_email"]
                /\ resp' = [resp EXCEPT ![w] = NoResp]
           ELSE /\ pc' = [pc EXCEPT ![w] = "done"]
                /\ resp' = [resp EXCEPT ![w] = Response(422, "Unprocessable Entity")]
    /\ UNCHANGED <<users, now, tokens, passwords>>

\* RegisterCheckEmail with the query filtered on the email and the username
RegisterCheckEmail_filter_both(w) ==
    /\ pc[w] = "check_email"
    /\ LET existing_email ==
               IF \E i \in 1..Len(users) : /\ users[i].email = req[w].email
                                           /\ users[i].username = req[w].username
               THEN first_by_email(users, req[w].email)
               ELSE None
       IN  IF existing_email # None
           THEN /\ pc' = [pc EXCEPT ![w] = "done"]
                /\ resp' = [resp EXCEPT ![w] = Response(400, "Email already registered")]
                /\ loc' = [loc EXCEPT ![w] = Return(@, "check_email")]
           ELSE /\ pc' = [pc EXCEPT ![w] = "check_username"]
                /\ loc' = [loc EXCEPT ![w].existing_email = existing_email,
                                      ![w].steps = Append(@, "check_email")]
                /\ UNCHANGED resp
    /\ UNCHANGED <<users, now, tokens, passwords, req>>

\* RegisterCheckEmail without the raise: the handler goes on to the username
RegisterCheckEmail_no_raise(w) ==
    /\ pc[w] = "check_email"
    /\ LET existing_email == first_by_email(users, req[w].email)
       IN  /\ pc' = [pc EXCEPT ![w] = "check_username"]
           /\ loc' = [loc EXCEPT ![w].existing_email = existing_email,
                                 ![w].steps = Append(@, "check_email")]
           /\ UNCHANGED resp
    /\ UNCHANGED <<users, now, tokens, passwords, req>>

\* existing_email = db.query(User).filter(User.email == user.email).first()
RegisterCheckEmail(w) ==
    /\ pc[w] = "check_email"
    /\ LET existing_email == first_by_email(users, req[w].email)
       IN  IF existing_email # None
           THEN /\ pc' = [pc EXCEPT ![w] = "done"]
                /\ resp' = [resp EXCEPT ![w] = Response(400, "Email already registered")]
                /\ loc' = [loc EXCEPT ![w] = Return(@, "check_email")]
           ELSE /\ pc' = [pc EXCEPT ![w] = "check_username"]
                /\ loc' = [loc EXCEPT ![w].existing_email = existing_email,
                                      ![w].steps = Append(@, "check_email")]
                /\ UNCHANGED resp
    /\ UNCHANGED <<users, now, tokens, passwords, req>>

\* existing_username = db.query(User).filter(User.username == user.username).first()
RegisterCheckUsername(w) ==
    /\ pc[w] = "check_username"
    /\ LET existing_username == first_by_username(users, req[w].username)
       IN  IF existing_username # None
           THEN /\ pc' = [pc EXCEPT ![w] = "done"]
                /\ resp' = [resp EXCEPT ![w] = Response(400, "Username already taken")]
                /\ loc' = [loc EXCEPT ![w] = Return(@, "check_username")]
           ELSE /\ pc' = [pc EXCEPT ![w] = "hash"]
                /\ loc' = [loc EXCEPT ![w].existing_username = existing_username,
                                      ![w].steps = Append(@, "check_username")]
                /\ UNCHANGED resp
    /\ UNCHANGED <<users, now, tokens, passwords, req>>

\* RegisterHash hashing the username in place of the password
RegisterHash_of_username(w) ==
    /\ pc[w] = "hash"
    /\ \E salt \in Salts :
        loc' = [loc EXCEPT ![w].hashed_password =
                               Some(get_password_hash(req[w].username, salt)),
                           ![w].steps = Append(@, "hash")]
    /\ pc' = [pc EXCEPT ![w] = "persist"]
    /\ UNCHANGED <<users, now, tokens, passwords, req, resp>>

\* hashed_password = get_password_hash(user.password)
RegisterHash(w) ==
    /\ pc[w] = "hash"
    /\ \E salt \in Salts :
        loc' = [loc EXCEPT ![w].hashed_password =
                               Some(get_password_hash(req[w].password, salt)),
                           ![w].steps = Append(@, "hash")]
    /\ pc' = [pc EXCEPT ![w] = "persist"]
    /\ UNCHANGED <<users, now, tokens, passwords, req, resp>>

\* db_user = User(...); db.add(db_user); db.commit(); db.refresh(db_user);
\* return MessageResponse(...).  The handler catches nothing: a commit the
\* table rejects ends the request with the framework's 500 answer.
RegisterPersist(w) ==
    /\ pc[w] = "persist"
    /\ LET db_user == [email |-> req[w].email, username |-> req[w].username,
                       hashed_password |-> loc[w].hashed_password[1]]
       IN  IF IntegrityError(users, db_user)
           THEN /\ resp' = [resp EXCEPT ![w] = Response(500, "Internal Server Error")]
                /\ UNCHANGED users
           ELSE /\ users' = Append(users, db_user)
                /\ resp' = [resp EXCEPT ![w] = Response(201, "User registered successfully")]
    /\ loc' = [loc EXCEPT ![w] = Return(@, "persist")]
    /\ pc' = [pc EXCEPT ![w] = "done"]
    /\ UNCHANGED <<now, tokens, passwords, req>>

----------------------------------------------------------------------------
(* POST /login *)

\* data={"sub": user.email, "username": user.username}
token_data(user) == [sub |-> user.email, username |-> user.username]

\* login_rejects without the password test
login_rejects_unknown_only(user, password) == user = None

\* if not user or not verify_password(credentials.password, user.hashed_password)
login_rejects(user, password) ==
    user = None \/ ~verify_password(password, user[1].hashed_password)

\* An answer that tells an unknown email from a wrong password
invalid_credentials_telling(user) ==
    IF user = None THEN Response(404, "User not found")
    ELSE Response(401, "Incorrect password")

\* raise HTTPException(401, "Invalid email or password"), whichever test failed
invalid_credentials(user) == Response(401, "Invalid email or password")

Login(w) ==
    /\ Free(w)
    /\ \E e \in Emails, p \in passwords :
        LET user == first_by_email(users, e)
            access_token == create_access_token(token_data(user[1]),
                                ACCESS_TOKEN_EXPIRE_MINUTES, now)
        IN  /\ req' = [req EXCEPT ![w] = [kind |-> "login", email |-> e,
                                          username |-> <<>>, password |-> p,
                                          token |-> None]]
            /\ IF login_rejects(user, p)
               THEN /\ resp' = [resp EXCEPT ![w] = invalid_credentials(user)]
                    /\ UNCHANGED tokens
               ELSE /\ resp' = [resp EXCEPT ![w] =
                                   [Response(200, "bearer") EXCEPT !.token = Some(access_token)]]
                    /\ tokens' = {access_token}
    /\ loc' = [loc EXCEPT ![w] = NoLoc]
    /\ pc' = [pc EXCEPT ![w] = "done"]
    /\ UNCHANGED <<users, now, passwords>>

----------------------------------------------------------------------------
(* GET /users/me *)

\* GetCurrentUser without the test of verify_token's result
GetCurrentUser_no_email_test(w) ==
    /\ Free(w)
    /\ \E token \in Presentable :
        LET email == verify_token(token, now)
            user == first_by_email(users, email)
        IN  /\ req' = [req EXCEPT ![w] = [kind |-> "me", email |-> NoEmail,
                                          username |-> <<>>, password |-> <<>>,
                                          token |-> Some(token)]]
            /\ IF user = None
               THEN resp' = [resp EXCEPT ![w] = Response(404, "User not found")]
               ELSE resp' = [resp EXCEPT ![w] =
                                [Response(200, "") EXCEPT !.user = user]]
    /\ loc' = [loc EXCEPT ![w] = NoLoc]
    /\ pc' = [pc EXCEPT ![w] = "done"]
    /\ UNCHANGED <<users, now, tokens, passwords>>

GetCurrentUser(w) ==
    /\ Free(w)
    /\ \E token \in Presentable :
        LET email == verify_token(token, now)
            user == first_by_email(users, email)
        IN  /\ req' = [req EXCEPT ![w] = [kind |-> "me", email |-> NoEmail,
                                          username |-> <<>>, password |-> <<>>,
                                          token |-> Some(token)]]
            /\ IF email = NoEmail
               THEN resp' = [resp EXCEPT ![w] = Response(401, "Invalid or expired token")]
               ELSE IF user = None
               THEN resp' = [resp EXCEPT ![w] = Response(404, "User not found")]
               ELSE resp' = [resp EXCEPT ![w] =
                                [Response(200, "") EXCEPT !.user = user]]
    /\ loc' = [loc EXCEPT ![w] = NoLoc]
    /\ pc' = [pc EXCEPT ![w] = "done"]
    /\ UNCHANGED <<users, now, tokens, passwords>>

----------------------------------------------------------------------------
(* The environment *)

\* Time passes.
Tick ==
    /\ now < MaxTime
    /\ now' = now + 1
    /\ UNCHANGED <<users, tokens, passwords, pc, req, loc, resp>>

\* An account is deleted from the store (UserStore.delete).
DeleteUser ==
    /\ \E e \in Emails :
        /\ first_by_email(users, e) # None
        /\ users' = delete_by_email(users, e)
    /\ UNCHANGED <<now, tokens, passwords, pc, req, loc, resp>>

----------------------------------------------------------------------------
(* The service alone: accounts are created and never deleted *)

Next ==
    \/ \E w \in Procs : RegisterReceive(w)
    \/ \E w \in Procs : RegisterCheckEmail(w)
    \/ \E w \in Procs : RegisterCheckUsername(w)
    \/ \E w \in Procs : RegisterHash(w)
    \/ \E w \in Procs : RegisterPersist(w)
    \/ \E w \in Procs : Login(w)
    \/ \E w \in Procs : GetCurrentUser(w)
    \/ Tick

Spec == Init /\ [][Next]_vars

(* The service and a store whose accounts can be deleted *)

NextStore == Next \/ DeleteUser

SpecStore == Init /\ [][NextStore]_vars

(* The request schema alone: one body, whose password is any string *)

InitPw ==
    /\ users = <<>>
    /\ now = 0
    /\ tokens = {}
    /\ passwords \in {{p} : p \in PwStrings}
    /\ pc = [w \in Procs |-> "idle"]
    /\ req = [w \in Procs |-> NoReq]
    /\ loc = [w \in Procs |-> NoLoc]
    /\ resp = [w \in Procs |-> NoResp]

NextPw == RegisterReceive("w1")

SpecPw == InitPw /\ [][NextPw]_vars

----------------------------------------------------------------------------
(* The outcomes the request layer can see *)

Ok                == Response(201, "User registered successfully")
DuplicateEmail    == Response(400, "Email already registered")
DuplicateUsername == Response(400, "Username already taken")
Unprocessable     == Response(422, "Unprocessable Entity")
InvalidCredentials == Response(401, "Invalid email or password")
Unauthenticated   == Response(401, "Invalid or expired token")

\* The order of the register handler's statements
RegisterOrder == <<"check_email", "check_username", "hash", "persist">>

IsPrefix(s, t) == Len(s) <= Len(t) /\ SubSeq(t, 1, Len(s)) = s

Registering(w) == req[w].kind = "register"
Stored(e) == \E i \in 1..Len(users) : users[i].email = e
Answered(w, kind) == req[w].kind = kind /\ pc[w] = "done"

----------------------------------------------------------------------------
(* C1: a login that fails because no user has the email and a login that   *)
(* fails because the password is wrong get the same answer, 401 "Invalid   *)
(* email or password", and no token is issued in either case.              *)
C1_LoginFailuresIndistinguishable ==
    [][\A w \in Procs :
        Login(w) =>
            LET user == first_by_email(users, req'[w].email)
                unknown == user = None
                wrong == /\ user # None
                         /\ ~verify_password(req'[w].password, user[1].hashed_password)
            IN  (unknown \/ wrong) =>
                    /\ resp'[w] = InvalidCredentials
                    /\ resp'[w].token = None
                    /\ tokens' = tokens]_vars

\* One login failed on an unknown email, another on a wrong password
C1_Witness ==
    \E w1, w2 \in Procs :
        /\ Answered(w1, "login") /\ Answered(w2, "login")
        /\ ~Stored(req[w1].email)
        /\ Stored(req[w2].email)
        /\ ~verify_password(req[w2].password,
                            first_by_email(users, req[w2].email)[1].hashed_password)
        /\ resp[w1] = InvalidCredentials
        /\ resp[w2] = InvalidCredentials

----------------------------------------------------------------------------
(* C2: every /users/me request that is not answered with the user is       *)
(* answered Unauthenticated, whether the token failed to decode or its     *)
(* subject is no longer in the store.                                      *)
C2_VerifyFailuresAreUnauthenticated ==
    \A w \in Procs :
        Answered(w, "me") /\ resp[w].user = None => resp[w] = Unauthenticated

----------------------------------------------------------------------------
(* C3: the users table never holds two rows with the same email, whatever  *)
(* the interleaving of the register requests.                              *)
C3_OneRecordPerEmail ==
    \A i, j \in 1..Len(users) : users[i].email = users[j].email => i = j

\* Two requests for one email both passed the checks and both tried to insert
C3_Witness ==
    \E w1, w2 \in Procs :
        /\ w1 # w2
        /\ Answered(w1, "register") /\ Answered(w2, "register")
        /\ req[w1].email = req[w2].email
        /\ loc[w1].steps = RegisterOrder /\ loc[w2].steps = RegisterOrder
        /\ Stored(req[w1].email)

----------------------------------------------------------------------------
(* C4: every register request ends in Ok or in DuplicateIdentifier (or is  *)
(* refused by the schema before the handler runs), also when the store     *)
(* rejects its insert.                                                     *)
C4_RegisterEndsOkOrDuplicate ==
    \A w \in Procs :
        Answered(w, "register") =>
            resp[w] \in {Ok, DuplicateEmail, DuplicateUsername, Unprocessable}

----------------------------------------------------------------------------
(* C5: the email check answers DuplicateIdentifier naming the email exactly *)
(* when a stored user has the request's email, a request succeeds only     *)
(* after it passed that check, and a stored email stays stored: so the     *)
(* second of two registrations of one email is answered "Email already     *)
(* registered".                                                            *)
C5_DuplicateEmailRejected ==
    [][/\ \A w \in Procs :
            RegisterCheckEmail(w) =>
                IF Stored(req[w].email)
                THEN pc'[w] = "done" /\ resp'[w] = DuplicateEmail
                ELSE pc'[w] = "check_username" /\ resp'[w] = NoResp
       /\ \A w \in Procs :
            resp'[w] = Ok /\ resp[w] # Ok =>
                /\ loc[w].steps = <<"check_email", "check_username", "hash">>
                /\ loc[w].existing_email = None
       /\ \A e \in Emails : Stored(e) => Stored(e)']_vars

\* The same email registered twice, with two usernames: Ok, then the email
C5_Witness ==
    \E w1, w2 \in Procs :
        /\ Answered(w1, "register") /\ Answered(w2, "register")
        /\ req[w1].email = req[w2].email
        /\ req[w1].username # req[w2].username
        /\ resp[w1] = Ok
        /\ resp[w2] = DuplicateEmail

----------------------------------------------------------------------------
(* C6: /users/me with a token a login issued answers the user whose email  *)
(* is the token's subject when the clock is before the token's expiry and  *)
(* the user exists, and answers Unauthenticated when the clock is at or    *)
(* after the expiry; the clock never goes back, so an expired token stays  *)
(* expired.                                                                *)
C6_TokenValidUntilExpiry ==
    [][/\ now' >= now
       /\ \A w \in Procs :
            GetCurrentUser(w) =>
                LET T == req'[w].token[1]
                IN  T \in tokens =>
                        /\ now < T.payload.exp /\ Stored(T.payload.sub) =>
                               /\ resp'[w].status = 200
                               /\ resp'[w].user # None
                               /\ resp'[w].user[1].email = T.payload.sub
                        /\ now >= T.payload.exp => resp'[w] = Unauthenticated]_vars

\* One token answered with its user, and answered Unauthenticated after expiry
C6_Witness ==
    \E w1, w2 \in Procs :
        /\ Answered(w1, "me") /\ Answered(w2, "me")
        /\ req[w1].token = req[w2].token
        /\ req[w1].token[1] \in tokens
        /\ resp[w1].status = 200
        /\ resp[w1].user[1].email = req[w1].token[1].payload.sub
        /\ resp[w2] = Unauthenticated
        /\ now >= req[w2].token[1].payload.exp

----------------------------------------------------------------------------
(* C7: login issues a token exactly when a stored user has the request's   *)
(* email and that user's hash is a hash of the request's password; the     *)
(* token's subject is the user's email, it carries the user's username and *)
(* it expires ACCESS_TOKEN_EXPIRE_MINUTES after it was issued.             *)
C7_LoginIssuesTokenIff ==
    [][\A w \in Procs :
        Login(w) =>
            LET user == first_by_email(users, req'[w].email)
                good == /\ user # None
                        /\ \E salt \in Salts :
                             user[1].hashed_password =
                                 get_password_hash(req'[w].password, salt)
            IN  /\ resp'[w].token # None <=> good
                /\ good =>
                    LET T == resp'[w].token[1]
                    IN  /\ resp'[w].status = 200
                        /\ T.payload.sub = req'[w].email
                        /\ T.payload.sub = user[1].email
                        /\ T.payload.username = user[1].username
                        /\ T.payload.exp = now + ACCESS_TOKEN_EXPIRE_MINUTES
                        /\ verify_token(T, now) = user[1].email
                        /\ tokens' = {T}]_vars

\* A login got a token, after the clock moved
C7_Witness ==
    \E w \in Procs :
        /\ Answered(w, "login")
        /\ resp[w].token # None
        /\ resp[w].token[1].payload.sub = req[w].email
        /\ resp[w].token[1].payload.exp = ACCESS_TOKEN_EXPIRE_MINUTES + 1

----------------------------------------------------------------------------
(* C8: the register handler runs check_email, check_username, hash,        *)
(* persist in this order and stops at the first check that fails: a stored *)
(* email is answered naming the email, also when the username is stored    *)
(* too, after the email check alone; a stored username is answered naming  *)
(* the username after the two checks; neither hashed nor inserted.         *)
C8_RegisterHaltsAtFirstConflict ==
    [][\A w \in Procs :
        /\ RegisterCheckEmail(w) /\ Stored(req[w].email) =>
               /\ resp'[w] = DuplicateEmail
               /\ pc'[w] = "done"
        /\ RegisterCheckUsername(w)
             /\ first_by_username(users, req[w].username) # None =>
               /\ resp'[w] = DuplicateUsername
               /\ pc'[w] = "done"
        /\ Registering(w)' =>
               /\ IsPrefix(loc'[w].steps, RegisterOrder)
               /\ resp'[w] = DuplicateEmail => loc'[w].steps = <<"check_email">>
               /\ resp'[w] = DuplicateUsername =>
                      loc'[w].steps = <<"check_email", "check_username">>
               /\ resp'[w].status = 400 =>
                      /\ pc'[w] = "done"
                      /\ loc'[w].hashed_password = None
                      /\ (pc[w] # "done" => users' = users)]_vars

\* A request whose email and username are both stored is answered on the email
C8_Witness ==
    \E w \in Procs :
        /\ Answered(w, "register")
        /\ Stored(req[w].email)
        /\ first_by_username(users, req[w].username) # None
        /\ resp[w] = DuplicateEmail
        /\ loc[w].steps = <<"check_email">>

----------------------------------------------------------------------------
(* C9: the schema lets a registration through exactly when its password    *)
(* has at least 8 characters, a digit among them and a letter among them;  *)
(* a refused body is answered at once, the handler takes no step and the   *)
(* table is as it was.                                                     *)
C9_PasswordPolicy ==
    \A w \in Procs :
        Registering(w) =>
            LET p == req[w].password
                strong == /\ Len(p) >= 8
                          /\ \E i \in 1..Len(p) : p[i] \in Digits
                          /\ \E i \in 1..Len(p) : p[i] \in Letters
            IN  /\ strong <=> resp[w] # Unprocessable
                /\ ~strong =>
                     /\ pc[w] = "done"
                     /\ loc[w].steps = <<>>
                     /\ users = <<>>

\* A password of 8 characters with a letter and no digit was refused
C9_Witness ==
    \E w \in Procs :
        /\ Registering(w)
        /\ Len(req[w].password) >= 8
        /\ \E i \in 1..Len(req[w].password) : req[w].password[i] \in Letters
        /\ \A i \in 1..Len(req[w].password) : req[w].password[i] \notin Digits
        /\ resp[w] = Unprocessable

----------------------------------------------------------------------------
(* C10: the users table changes only in the step in which a register       *)
(* request is answered Ok, which appends one row holding the request's     *)
(* email, its username and a hash of its password and keeps every row      *)
(* there was; a register answered DuplicateIdentifier, a login and a       *)
(* /users/me leave the table as it was.                                    *)
C10_OnlyRegisterChangesStore ==
    [][/\ users' # users =>
            \E w \in Procs :
                /\ RegisterPersist(w)
                /\ resp'[w] = Ok
                /\ Len(users') = Len(users) + 1
                /\ SubSeq(users', 1, Len(users)) = users
                /\ users'[Len(users')].email = req[w].email
                /\ users'[Len(users')].username = req[w].username
                /\ \E salt \in Salts :
                     users'[Len(users')].hashed_password =
                         get_password_hash(req[w].password, salt)
       /\ \A w \in Procs :
            (\/ Login(w)
             \/ GetCurrentUser(w)
             \/ (pc[w] # "done" /\ pc'[w] = "done" /\ resp'[w].status = 400))
            => users' = users]_vars

\* A registration was answered Ok and its row follows the row there was
C10_Witness ==
    \E w \in Procs :
        /\ Answered(w, "register")
        /\ resp[w] = Ok
        /\ Len(users) = 2
        /\ users[2].email = req[w].email
        /\ users[2].username = req[w].username

====
